---- MODULE Spec2Model ----
(***************************************************************************)
(* HamsterBridge (src/hamster_bridge/bridge.py): the listener registry,    *)
(* the fact cache, process() and the polling loop of run().                *)
(*                                                                         *)
(* A Fact is a record [id, activity, end_time].  activity stands for the   *)
(* fields that are neither the id nor a time; end_time = NoEnd is Python's *)
(* None (the fact is still running).  start_time is never read by the      *)
(* bridge other than through Fact equality and is kept constant, so it is  *)
(* not a field of the record.                                              *)
(***************************************************************************)
EXTENDS Integers, Sequences, FiniteSets, TLC

\* ------------------------------------------------------------------ bounds
MaxTime == 2
MaxListeners == 2
MaxAddCalls == 3

\* ------------------------------------------------------------ value spaces
NoEnd == 0
\* Two facts: enough for a snapshot to order them, and for one to change,
\* appear or vanish while the other stays.
FactIds == {1, 2}
Activities == {"a", "b"}
EndTimes == {NoEnd} \cup (1..MaxTime)
Fact == [id : FactIds, activity : Activities, end_time : EndTimes]
ListenerIds == 1..MaxListeners

Range(s) == {s[i] : i \in DOMAIN s}
NoDup(s) == \A i, j \in DOMAIN s : s[i] = s[j] => i = j
Ids(facts) == {facts[i].id : i \in DOMAIN facts}

\* What get_todays_facts() can return: a list of facts, one per id.
Snapshots ==
  UNION {{s \in [1..n -> Fact] : \A i, j \in 1..n : s[i].id = s[j].id => i = j} :
         n \in 0..Cardinality(FactIds)}

\* The exceptions that can be raised while run() executes.
Interrupts == {"KeyboardInterrupt", "SystemExit"}
ExcTypes == Interrupts \cup {"Exception"}

VARIABLES
  pc,         \* the statement of the program that runs next
  listeners,  \* HamsterBridge._listeners
  addCalls,   \* the arguments of the add_listener calls, until run() (history)
  prepared,   \* the listeners whose prepare() run() has invoked, in order
  cache,      \* HamsterBridge._facts_cache
  snapshot,   \* the last list returned by get_todays_facts()
  calls,      \* the listener callbacks invoked in the current loop iteration
  before,     \* the cache when the process() of this iteration began (history)
  exc,        \* the exception run() was left with, "none" if none: the one
              \* that ended it, unless its handler caught and discarded it
  excAt,      \* the statement of run() in which an exception was raised
  save_passwords,    \* HamsterBridge.save_passwords
  configfile,        \* the content of the file at config_path
  config,            \* configure()'s config, as the listeners left it
  sensitive_config,  \* configure()'s sensitive_config, as they left it
  configured,        \* the listeners whose configure() was invoked, in order
  prepFail,          \* what each prepare() call of run() met, in order
  redmine,           \* a RedmineHamsterListener, the server it talks to and
                     \* what its last on_fact_started call did
  session            \* what the earlier iterations of run()'s loop did: the
                     \* ids on_fact_started and on_fact_stopped were invoked
                     \* for, the ids the previous snapshot did not show

confVars == <<save_passwords, configfile, config, sensitive_config, configured>>

vars == <<pc, listeners, addCalls, prepared, cache, snapshot, calls, before, exc, excAt,
          confVars, prepFail, redmine, session>>

\* ------------------------------------------------------- configuration
\* A RawConfigParser is [defaults, sections]: the options of the DEFAULT
\* section, and for each other section its own options.  The file at
\* config_path holds what a parser wrote; an empty parser stands for a file
\* that is empty or missing.
ConfigSections == {"redmine", "other"}
Options == {"server_url", "api_key"}
Values == {"a", "b"}

EmptyMap == [x \in {} |-> x]
OptionMaps == UNION {[os -> Values] : os \in SUBSET Options}
Parsers ==
  [defaults : OptionMaps,
   sections : UNION {[ss -> OptionMaps] : ss \in SUBSET ConfigSections}]

\* configparser.RawConfigParser()
EmptyParser == [defaults |-> EmptyMap, sections |-> EmptyMap]

\* config.sections(): DEFAULT is not listed.
sections(p) == DOMAIN p.sections

\* config.options(section): the section's options and those of DEFAULT.
options(p, sec) == (DOMAIN p.sections[sec]) \cup (DOMAIN p.defaults)

\* config.has_option(section, option)
has_option(p, sec, o) == sec \in sections(p) /\ o \in options(p, sec)

\* config.get(section, option): the section's value, else DEFAULT's.
get(p, sec, o) ==
  IF o \in DOMAIN p.sections[sec] THEN p.sections[sec][o] ELSE p.defaults[o]

\* result.add_section(section), DuplicateSectionError ignored.
add_section(p, sec) ==
  IF sec \in sections(p) THEN p
  ELSE [p EXCEPT !.sections =
          [t \in sections(p) \cup {sec} |-> IF t = sec THEN EmptyMap ELSE p.sections[t]]]

\* result.set(section, option, value), the section being there.
set(p, sec, o, v) ==
  [p EXCEPT !.sections[sec] =
     [x \in (DOMAIN p.sections[sec]) \cup {o} |-> IF x = o THEN v ELSE p.sections[sec][x]]]

\* The loop "for option in config.options(section)" of _combine_configs.
RECURSIVE CopyOptions(_, _, _, _)
CopyOptions(result, from, sec, os) ==
  IF os = {} THEN result
  ELSE LET o == CHOOSE x \in os : TRUE
       IN CopyOptions(set(result, sec, o, get(from, sec, o)), from, sec, os \ {o})

\* The loop "for section in config.sections()" of _combine_configs.
RECURSIVE CopySections(_, _, _)
CopySections(result, from, secs) ==
  IF secs = {} THEN result
  ELSE LET sec == CHOOSE x \in secs : TRUE
       IN CopySections(CopyOptions(add_section(result, sec), from, sec, options(from, sec)),
                       from, secs \ {sec})

\* _combine_configs(*configs): later configs overwrite earlier values.
RECURSIVE combine_configs(_)
combine_configs(configs) ==
  IF configs = <<>> THEN EmptyParser
  ELSE LET n == Len(configs)
           result == combine_configs(SubSeq(configs, 1, n - 1))
       IN CopySections(result, configs[n], sections(configs[n]))

\* Mutant: the passwords are written whatever save_passwords says.
written_always_all(save, conf, sens) == combine_configs(<<conf, sens>>)

\* What configure() writes to the file.
written(save, conf, sens) == IF save THEN combine_configs(<<conf, sens>>) ELSE conf

\* The section a listener keeps its options in: its class's short_name.
short_name(l) == IF l % 2 = 1 THEN "redmine" ELSE "other"

\* What one listener's configure() puts into config and into
\* sensitive_config: for each, nothing or one option of its section.
NoWrite == <<>>
Writes == {NoWrite} \cup (Options \X Values)
ListenerWrites == [conf : Writes, sens : Writes]
DefaultWrite == [conf |-> <<"server_url", "a">>, sens |-> <<"api_key", "b">>]
DefaultWrites == {DefaultWrite}

ListenerSet(p, l, w) ==
  IF w = NoWrite THEN p
  ELSE set(add_section(p, short_name(l)), short_name(l), w[1], w[2])

\* The loop "for listener in self._listeners: listener.configure(...)" on
\* one of the two parsers; ws[k] is what listener k writes to it.
RECURSIVE ConfigureAll(_, _, _)
ConfigureAll(p, ls, ws) ==
  IF ls = <<>> THEN p
  ELSE LET n == Len(ls)
       IN ListenerSet(ConfigureAll(p, SubSeq(ls, 1, n - 1), ws), ls[n], ws[n])

\* ------------------------------------------------------ prepare() failures
\* RedmineHamsterListener.prepare() reads its configuration and builds the
\* client ("setup"), asks for the time entry activities ("filter") and
\* iterates over them ("iterate"); each step may raise.  What prepare() of
\* another listener class raises is raised at "prepare".
RedminePrepareSteps == {"setup", "filter", "iterate"}
RedmineCaught == {"BaseRedmineError", "IOError", "ConnectionError"}
NoFail == [step |-> "none", type |-> "none"]

PrepareFailures(l) ==
  {NoFail} \cup
    (IF short_name(l) = "redmine"
     THEN [step : RedminePrepareSteps, type : RedmineCaught \cup ExcTypes]
     ELSE [step : {"prepare"}, type : ExcTypes])

\* Mutant: the except clause covers all of prepare().
prepare_catches_any_step(step, type) == type \in RedmineCaught

\* The try block of RedmineHamsterListener.prepare() holds the iteration
\* only, and its except clause names three exception types.
prepare_catches(step, type) == step = "iterate" /\ type \in RedmineCaught

\* The failure leaves prepare().
Propagates(f) == f # NoFail /\ ~prepare_catches(f.step, f.type)

\* What the prepare() calls of run() may meet, listener by listener: none
\* is called after one that raised.
FailureVectors(ls) ==
  {fs \in [DOMAIN ls -> UNION {PrepareFailures(l) : l \in ListenerIds}] :
     \A k \in DOMAIN ls :
       /\ fs[k] \in PrepareFailures(ls[k])
       /\ (\E j \in 1..(k - 1) : Propagates(fs[j])) => fs[k] = NoFail}

\* The number of prepare() calls run() makes.
PrepareCalls(ls, fs) ==
  IF \E k \in DOMAIN ls : Propagates(fs[k])
  THEN CHOOSE k \in DOMAIN ls : Propagates(fs[k])
  ELSE Len(ls)

\* Mutant: run() prepares the listeners last to first.
PreparedLastFirst(ls, n) == [k \in 1..n |-> ls[Len(ls) + 1 - k]]

\* The listeners run() has called prepare() on after n calls.
Prepared(ls, n) == SubSeq(ls, 1, n)

\* ------------------------------------------------- the Redmine listener
\* An activity text is a sequence of characters, an issue id a sequence of
\* digits.
Digits == {"1", "2"}
RedmineActivities ==
  {<<"a">>, <<"1">>, <<"1", " ", "a">>, <<"2", " ", "a">>,
   <<"1", "2", " ">>, <<"1", " ", "2", " ">>}
RemoteIssueIds == {<<"1">>, <<"2">>}
NoIssue == <<>>

\* The end of the run of digits that starts at i.
RECURSIVE DigitsEnd(_, _)
DigitsEnd(text, i) ==
  IF i <= Len(text) /\ text[i] \in Digits THEN DigitsEnd(text, i + 1) ELSE i

\* issue_from_title.findall(fact.activity) with the pattern '([0-9]+)\ ':
\* the runs of digits that a space follows, left to right.
RECURSIVE findall(_, _)
findall(text, i) ==
  IF i > Len(text) THEN <<>>
  ELSE IF text[i] \notin Digits THEN findall(text, i + 1)
  ELSE LET j == DigitsEnd(text, i)
       IN IF j <= Len(text) /\ text[j] = " "
          THEN <<SubSeq(text, i, j - 1)>> \o findall(text, j + 1)
          ELSE findall(text, j)

\* An issue status as the listener holds it: None, or a dict with a name
\* and an id.
NoneStatus == [is_none |-> TRUE, name |-> "None"]
StatusNames == {"New", "In Work"}

\* RedmineHamsterListener.__init__: no issue cached, both statuses None.
RedmineInit(auto, remote) ==
  [auto_start |-> auto,
   remote |-> remote,
   issues |-> EmptyMap,
   issue_status_default |-> NoneStatus,
   issue_status_in_work |-> NoneStatus,
   prepared |-> FALSE,
   last |-> [outcome |-> "none", activity |-> <<>>, issue |-> NoIssue, remote |-> remote]]

\* The server has an issue of this id: GET issues/<id>.json answers 200.
Exists(remote, id) == id \in DOMAIN remote /\ remote[id] # "absent"

\* __get_issue_id_from_fact: the first candidate the server knows, its
\* data cached by __exists_issue on the way; NoIssue if there is none.
RECURSIVE get_issue_id(_, _)
get_issue_id(remote, candidates) ==
  IF candidates = <<>> THEN NoIssue
  ELSE IF Exists(remote, Head(candidates)) THEN Head(candidates)
  ELSE get_issue_id(remote, Tail(candidates))

\* self.__issues after __get_issue_id_from_fact found this issue.
CacheIssue(issues, remote, id) ==
  IF id = NoIssue THEN issues
  ELSE [x \in (DOMAIN issues) \cup {id} |-> IF x = id THEN remote[id] ELSE issues[x]]

\* RedmineHamsterListener.on_fact_started(fact): the listener afterwards,
\* with the outcome of the call.  net = "down" makes the first request
\* raise; subscripting a status that is None raises TypeError.
on_fact_started(r, activity, net) ==
  LET candidates == findall(activity, 1)
      id == get_issue_id(r.remote, candidates)
      cached == CacheIssue(r.issues, r.remote, id)
      done(outcome, found, issues, remote) ==
        [r EXCEPT !.issues = issues, !.remote = remote,
                  !.last = [outcome |-> outcome, activity |-> activity,
                            issue |-> found, remote |-> r.remote]]
  IN IF r.auto_start # "y" THEN done("returned", NoIssue, r.issues, r.remote)
     ELSE IF candidates # <<>> /\ net = "down"
       THEN done("ConnectionError", NoIssue, r.issues, r.remote)
     ELSE IF id = NoIssue THEN done("returned", id, cached, r.remote)
     ELSE IF r.issue_status_default.is_none THEN done("TypeError", id, cached, r.remote)
     ELSE IF cached[id] # r.issue_status_default.name
       THEN done("returned", id, cached, r.remote)
     ELSE IF r.issue_status_in_work.is_none THEN done("TypeError", id, cached, r.remote)
     ELSE done("returned", id, cached,
               [r.remote EXCEPT ![id] = r.issue_status_in_work.name])

\* ---------------------------------------------------------- pure functions
\* Python truthiness of an end_time: None is false, a datetime is true.
Truthy(t) == t # NoEnd

EmptyCache == [i \in {} |-> i]

\* Mutant: the registry takes the listener whether it is there or not.
add_listener_always(ls, l) == Append(ls, l)

\* add_listener's effect on the registry.
add_listener(ls, l) == IF l \notin Range(ls) THEN Append(ls, l) ELSE ls

\* Mutant: run() starts with an empty cache.
DictOfNothing(facts) == [i \in {} |-> i]

\* {fact.id: fact for fact in facts}: a later fact overwrites an earlier one.
DictOf(facts) ==
  [i \in Ids(facts) |->
     facts[CHOOSE k \in DOMAIN facts :
             facts[k].id = i /\ \A m \in DOMAIN facts : facts[m].id = i => m <= k]]

\* Mutant: the eviction is left out.
cleanup_keeps_all(c, facts) == c

\* Mutant: the eviction drops every entry.
cleanup_drops_all(c, facts) == [i \in {} |-> c[i]]

cleanup_extraneous_facts_cache_entries(c, facts) ==
  [i \in (DOMAIN c) \ ((DOMAIN c) \ Ids(facts)) |-> c[i]]

\* self._facts_cache[fact.id] = fact
Store(c, f) == [i \in (DOMAIN c) \cup {f.id} |-> IF i = f.id THEN f ELSE c[i]]

\* for listener in self._listeners: listener.<op>(fact)
RECURSIVE Dispatch(_, _, _)
Dispatch(op, ls, f) ==
  IF ls = <<>> THEN <<>>
  ELSE <<[op |-> op, listener |-> Head(ls), fact |-> f]>> \o Dispatch(op, Tail(ls), f)

\* Python's None as the result of self._facts_cache.get(fact.id): a value
\* that is no Fact.
None == [id |-> 0, activity |-> "None", end_time |-> NoEnd]

\* self._facts_cache.get(id)
Get(c, id) == IF id \in DOMAIN c THEN c[id] ELSE None

\* Mutant: an equality that looks at the id and the end time only.
FactEqTimesOnly(cached_fact, fact) ==
  cached_fact.id = fact.id /\ cached_fact.end_time = fact.end_time

\* cached_fact == fact: Fact equality, false when cached_fact is None.
FactEq(cached_fact, fact) == cached_fact = fact

\* Mutant: only a fact that is not cached counts as started.
started_only_if_new(cached_fact) == cached_fact = None

\* Mutant: only a cached fact without end time counts as started.
started_only_if_cached(cached_fact) ==
  cached_fact # None /\ ~Truthy(cached_fact.end_time)

\* Mutant: every cached fact counts as started.
started_whatever_cached(cached_fact) == TRUE

\* is_cached_fact_started = not (cached_fact and cached_fact.end_time)
is_cached_fact_started(cached_fact) ==
  ~(cached_fact # None /\ Truthy(cached_fact.end_time))

\* Mutant: the cache is written before the listeners are told.
FactStepsStoreFirst(c, fact, ls) ==
  LET cached_fact == Get(c, fact.id) IN
  IF cached_fact = fact THEN <<>>
  ELSE <<[op |-> "store", fact |-> fact]>>
       \o (IF cached_fact = None THEN Dispatch("on_fact_started", ls, fact) ELSE <<>>)
       \o (IF Truthy(fact.end_time) /\ ~(cached_fact # None /\ Truthy(cached_fact.end_time))
           THEN Dispatch("on_fact_stopped", ls, fact) ELSE <<>>)

\* Mutant: on_fact_stopped is dispatched before on_fact_started.
FactStepsStopFirst(c, fact, ls) ==
  LET cached_fact == Get(c, fact.id) IN
  IF cached_fact = fact THEN <<>>
  ELSE (IF Truthy(fact.end_time) /\ ~(cached_fact # None /\ Truthy(cached_fact.end_time))
        THEN Dispatch("on_fact_stopped", ls, fact) ELSE <<>>)
       \o (IF cached_fact = None THEN Dispatch("on_fact_started", ls, fact) ELSE <<>>)
       \o <<[op |-> "store", fact |-> fact]>>

\* One pass of process()'s loop body for fact against cache c: the
\* callbacks and the cache write, in the order the code performs them.
FactSteps(c, fact, ls) ==
  LET cached_fact == Get(c, fact.id) IN
  IF FactEq(cached_fact, fact) THEN <<>>
  ELSE (IF cached_fact = None THEN Dispatch("on_fact_started", ls, fact) ELSE <<>>)
       \o (IF Truthy(fact.end_time) /\ is_cached_fact_started(cached_fact)
           THEN Dispatch("on_fact_stopped", ls, fact) ELSE <<>>)
       \o <<[op |-> "store", fact |-> fact]>>

RECURSIVE LoopSteps(_, _, _)
LoopSteps(c, facts, ls) ==
  IF facts = <<>> THEN <<>>
  ELSE LET f == Head(facts)
           st == FactSteps(c, f, ls)
       IN st \o LoopSteps(IF st = <<>> THEN c ELSE Store(c, f), Tail(facts), ls)

\* All steps of one process() call that fetches facts with cache c.
ProcessSteps(c, facts, ls) ==
  <<[op |-> "fetch"], [op |-> "cleanup"]>>
  \o LoopSteps(cleanup_extraneous_facts_cache_entries(c, facts), facts, ls)

IsCallback(step) == step.op \in {"on_fact_started", "on_fact_stopped"}

ApplyStep(c, step, facts) ==
  CASE step.op = "cleanup" -> cleanup_extraneous_facts_cache_entries(c, facts)
    [] step.op = "store" -> Store(c, step.fact)
    [] OTHER -> c

\* An Exception leaves process() from get_todays_facts() (no step done) or
\* from the listener callback that is step number done.
CanRaise(steps, done) == IF done = 0 THEN TRUE ELSE IsCallback(steps[done])

\* The cache and the callbacks invoked so far after 0, 1, ..., Len(steps)
\* steps of a process() call that started with cache c: Trace(...)[k + 1] is
\* the state after k steps.
RECURSIVE Trace(_, _, _, _)
Trace(c, cl, steps, facts) ==
  <<[cache |-> c, calls |-> cl]>>
  \o (IF steps = <<>> THEN <<>>
      ELSE Trace(ApplyStep(c, Head(steps), facts),
                 IF IsCallback(Head(steps)) THEN Append(cl, Head(steps)) ELSE cl,
                 Tail(steps), facts))

\* The ways a process() call with these steps can end.  done is the number
\* of steps performed: all of them when nothing is raised (exc = "none"); an
\* interrupt can arrive after any step; an Exception is raised by
\* get_todays_facts() or by a callback.
OutcomesOf(steps, tr) ==
  {[done |-> done, exc |-> e, cache |-> tr[done + 1].cache, calls |-> tr[done + 1].calls] :
     <<done, e>> \in {x \in (0..Len(steps)) \X (ExcTypes \cup {"none"}) :
                       /\ x[2] = "none" => x[1] = Len(steps)
                       /\ x[2] = "Exception" => CanRaise(steps, x[1])}}

Outcomes(steps, c, facts) == OutcomesOf(steps, Trace(c, <<>>, steps, facts))

\* --------------------------------------------------------------- run()
\* Mutant: the handler catches KeyboardInterrupt only.
run_except_keyboard_only(e) == IF e = "KeyboardInterrupt" THEN "returned" ELSE "raised"

\* Mutant: the handler catches every exception.
run_except_all(e) == "returned"

\* run()'s handler, "except (KeyboardInterrupt, SystemExit): pass", around
\* the loop: where control goes when e is raised inside the try block.
run_except(e) == IF e \in {"KeyboardInterrupt", "SystemExit"} THEN "returned" ELSE "raised"

\* What is left of e after the try statement of run(): "pass" discards the
\* interrupt the handler caught, anything else is on its way to the caller.
after_except(e) == IF e \in Interrupts /\ run_except(e) = "returned" THEN "none" ELSE e

\* Mutant: the loop body starts with the sleep.
LoopEntrySleep == "sleep"

\* The first statement of run()'s loop body, entered after the seeding.
LoopEntry == "process"

\* The statement that follows process() in the loop body.
AfterProcess == "sleep"

\* The statement that follows time.sleep() in the loop body (next iteration).
AfterSleep == "process"

\* No record is kept of the iterations of the loop of run().
NoSession == <<>>

\* No listener is looked into.
NoRedmine == <<>>

Init ==
  /\ pc = "init"
  /\ listeners = <<>>
  /\ addCalls = <<>>
  /\ prepared = <<>>
  /\ cache = EmptyCache
  /\ snapshot = <<>>
  /\ calls = <<>>
  /\ before = EmptyCache
  /\ exc = "none"
  /\ excAt = "none"
  /\ save_passwords = FALSE
  /\ configfile = EmptyParser
  /\ config = EmptyParser
  /\ sensitive_config = EmptyParser
  /\ configured = <<>>
  /\ prepFail = <<>>
  /\ redmine = NoRedmine
  /\ session = NoSession

\* The program creates the bridge, registers its listeners, calls
\* configure(path) once and then run(interval).
CallerRegisters == pc = "init"
CallerConfigures == pc = "init"
CallerRuns == pc = "configured"

\* HamsterBridge.add_listener(listener), before run() is called.
AddListener ==
  /\ CallerRegisters
  /\ Len(addCalls) < MaxAddCalls
  /\ \E l \in ListenerIds :
       /\ listeners' = add_listener(listeners, l)
       /\ addCalls' = Append(addCalls, l)
  /\ UNCHANGED <<pc, prepared, cache, snapshot, calls, before, exc, excAt,
                 confVars, prepFail, redmine, session>>

\* HamsterBridge.configure(config_path): the file is read, every listener
\* extends the two parsers, the file is written.  ws[k] is what listener k
\* writes, one of choices.
ConfigureWith(choices) ==
  /\ CallerConfigures
  /\ \E ws \in [DOMAIN listeners -> choices] :
       LET conf == ConfigureAll(configfile, listeners, [k \in DOMAIN ws |-> ws[k].conf])
           sens == ConfigureAll(EmptyParser, listeners, [k \in DOMAIN ws |-> ws[k].sens])
       IN /\ config' = conf
          /\ sensitive_config' = sens
          /\ configfile' = written(save_passwords, conf, sens)
  /\ configured' = listeners
  /\ pc' = "configured"
  /\ addCalls' = <<>>   \* registration is over: the history is dropped
  /\ UNCHANGED <<listeners, prepared, cache, snapshot, calls, before, exc, excAt,
                 save_passwords, prepFail, redmine, session>>

Configure == ConfigureWith(DefaultWrites)

\* run(), lines 98-100: prepare() on every listener.  The loop is outside
\* run()'s try block, so anything raised here leaves run().
Prepare ==
  /\ CallerRuns
  /\ \E fs \in FailureVectors(listeners), late \in Interrupts \cup {"none"} :
       LET n == PrepareCalls(listeners, fs)
           e == IF n >= 1 /\ Propagates(fs[n]) THEN fs[n].type ELSE late
       IN /\ prepared' = Prepared(listeners, n)
          /\ prepFail' = SubSeq(fs, 1, n)
          /\ exc' = e
          /\ excAt' = IF e = "none" THEN "none" ELSE "prepare"
          /\ pc' = IF e = "none" THEN "seed" ELSE "raised"
  /\ UNCHANGED <<listeners, addCalls, cache, snapshot, calls, before, confVars, redmine,
                 session>>

\* run(), line 103: the cache is seeded from the current facts; also
\* outside the try block.
SeedStep ==
  /\ pc = "seed"
  /\ \E facts \in Snapshots, e \in ExcTypes \cup {"none"} :
       /\ exc' = e
       /\ excAt' = IF e = "none" THEN "none" ELSE "seed"
       /\ IF e = "none"
          THEN /\ cache' = DictOf(facts)
               /\ snapshot' = facts
               /\ pc' = LoopEntry
          ELSE /\ UNCHANGED <<cache, snapshot>>
               /\ pc' = "raised"
  /\ prepFail' = <<>>   \* run() is past its prepare() calls
  /\ UNCHANGED <<listeners, addCalls, prepared, calls, before, confVars, redmine>>

Seed == SeedStep /\ UNCHANGED session

\* run(), line 106: one process() call, to its end or to the point where
\* something is raised.
ProcessStep ==
  /\ pc = "process"
  /\ \E facts \in Snapshots :
       \E o \in Outcomes(ProcessSteps(cache, facts, listeners), cache, facts) :
         /\ cache' = o.cache
         /\ calls' = o.calls
         /\ snapshot' = IF o.done >= 1 THEN facts ELSE snapshot
         /\ before' = cache
         /\ exc' = after_except(o.exc)
         /\ excAt' = IF o.exc = "none" THEN "none" ELSE "process"
         /\ pc' = IF o.exc = "none" THEN AfterProcess ELSE run_except(o.exc)
  /\ UNCHANGED <<listeners, addCalls, prepared, confVars, prepFail, redmine>>

Process == ProcessStep /\ UNCHANGED session

\* run(), line 107: time.sleep(polling_intervall).
SleepStep ==
  /\ pc = "sleep"
  /\ \E e \in Interrupts \cup {"none"} :
       /\ exc' = after_except(e)
       /\ excAt' = IF e = "none" THEN "none" ELSE "sleep"
       /\ pc' = IF e = "none" THEN AfterSleep ELSE run_except(e)
  /\ calls' = <<>>
  /\ before' = EmptyCache
  /\ UNCHANGED <<listeners, addCalls, prepared, cache, snapshot, confVars, prepFail,
                 redmine>>

Sleep == SleepStep /\ UNCHANGED session

Next == AddListener \/ Configure \/ Prepare \/ Seed \/ Process \/ Sleep

Spec == Init /\ [][Next]_vars

\* configure() alone, over every file content, both values of
\* save_passwords and everything the listeners may write.
InitConfig ==
  /\ pc = "init"
  /\ listeners \in {<<>>, <<1>>, <<1, 2>>}
  /\ addCalls = <<>>
  /\ prepared = <<>>
  /\ cache = EmptyCache
  /\ snapshot = <<>>
  /\ calls = <<>>
  /\ before = EmptyCache
  /\ exc = "none"
  /\ excAt = "none"
  /\ save_passwords \in BOOLEAN
  /\ configfile \in Parsers
  /\ config = EmptyParser
  /\ sensitive_config = EmptyParser
  /\ configured = <<>>
  /\ prepFail = <<>>
  /\ redmine = NoRedmine
  /\ session = NoSession

ConfigureAny == ConfigureWith(ListenerWrites)

NextConfig == ConfigureAny

SpecConfig == InitConfig /\ [][NextConfig]_vars

\* One Redmine listener with its server: any auto_start answer, any
\* issues on the server, any started fact.
bridgeVars ==
  <<pc, listeners, addCalls, prepared, cache, snapshot, calls, before, exc, excAt,
    confVars, prepFail, session>>

InitRedmine ==
  /\ pc = "init"
  /\ listeners = <<>>
  /\ addCalls = <<>>
  /\ prepared = <<>>
  /\ cache = EmptyCache
  /\ snapshot = <<>>
  /\ calls = <<>>
  /\ before = EmptyCache
  /\ exc = "none"
  /\ excAt = "none"
  /\ save_passwords = FALSE
  /\ configfile = EmptyParser
  /\ config = EmptyParser
  /\ sensitive_config = EmptyParser
  /\ configured = <<>>
  /\ prepFail = <<>>
  /\ \E auto \in {"y", "n"}, remote \in [RemoteIssueIds -> StatusNames \cup {"absent"}] :
       redmine = RedmineInit(auto, remote)
  /\ session = NoSession

\* RedmineHamsterListener.prepare() returning: the client is built and the
\* activities are listed; the issue statuses are not fetched.
RedminePrepare ==
  /\ ~redmine.prepared
  /\ redmine' = [redmine EXCEPT !.prepared = TRUE]
  /\ UNCHANGED bridgeVars

\* The bridge calls on_fact_started(fact) on the prepared listener.
RedmineOnFactStarted ==
  /\ redmine.prepared
  /\ \E activity \in RedmineActivities, net \in {"up", "down"} :
       redmine' = on_fact_started(redmine, activity, net)
  /\ UNCHANGED bridgeVars

\* Somebody else changes an issue on the server.
RemoteChange ==
  /\ \E id \in RemoteIssueIds, st \in StatusNames \cup {"absent"} :
       redmine' = [redmine EXCEPT !.remote[id] = st, !.last.outcome = "none"]
  /\ UNCHANGED bridgeVars

NextRedmine == RedminePrepare \/ RedmineOnFactStarted \/ RemoteChange

SpecRedmine == InitRedmine /\ [][NextRedmine]_vars

\* The loop of run() with a record of its earlier iterations.  It starts
\* where run() is after two listeners were registered, configured and
\* prepared.
SessionListeners == <<1, 2>>

InitSession ==
  /\ pc = "seed"
  /\ listeners = SessionListeners
  /\ addCalls = <<>>
  /\ prepared = SessionListeners
  /\ cache = EmptyCache
  /\ snapshot = <<>>
  /\ calls = <<>>
  /\ before = EmptyCache
  /\ exc = "none"
  /\ excAt = "none"
  /\ save_passwords = FALSE
  /\ config = ConfigureAll(EmptyParser, SessionListeners,
                           [k \in DOMAIN SessionListeners |-> DefaultWrite.conf])
  /\ sensitive_config = ConfigureAll(EmptyParser, SessionListeners,
                                     [k \in DOMAIN SessionListeners |-> DefaultWrite.sens])
  /\ configfile = config
  /\ configured = SessionListeners
  /\ prepFail = <<NoFail, NoFail>>
  /\ redmine = NoRedmine
  /\ session = [started |-> {}, stopped |-> {}, omitted |-> {}]

\* The ids op was invoked for in the iteration that ends.
InvokedFor(op) == {calls[k].fact.id : k \in {j \in DOMAIN calls : calls[j].op = op}}

SessionSeed ==
  /\ SeedStep
  /\ session' = [session EXCEPT !.omitted = FactIds \ Ids(snapshot')]

SessionProcess == ProcessStep /\ UNCHANGED session

SessionSleep ==
  /\ SleepStep
  /\ session' = [started |-> session.started \cup InvokedFor("on_fact_started"),
                 stopped |-> session.stopped \cup InvokedFor("on_fact_stopped"),
                 omitted |-> FactIds \ Ids(snapshot)]

NextSession == SessionSeed \/ SessionProcess \/ SessionSleep

SpecSession == InitSession /\ [][NextSession]_vars

\* ------------------------------------------------- vocabulary of the claims
\* The process() call of the current iteration returned normally.
TickDone == pc = "sleep"

\* The number of times op was invoked on listener l with a fact of this id
\* in the current iteration.
Invocations(op, l, id) ==
  Cardinality({k \in DOMAIN calls :
                 calls[k].op = op /\ calls[k].listener = l /\ calls[k].fact.id = id})

\* No callback at all was invoked for a fact of this id.
Silent(id) == \A k \in DOMAIN calls : calls[k].fact.id # id

\* The snapshot of this iteration shows a fact of this id.
InSnapshot(id) == \E k \in DOMAIN snapshot : snapshot[k].id = id

\* C1: after the seeding and after every process() that returned normally
\* the cache has exactly the ids of the snapshot fetched in that step, each
\* mapped to the snapshot's fact.
C1_CacheIsSnapshot ==
  pc \in {"process", "sleep"} =>
    /\ DOMAIN cache = Ids(snapshot)
    /\ \A k \in DOMAIN snapshot : cache[snapshot[k].id] = snapshot[k]

\* A completed tick that evicted one fact, kept another and reported events.
C1_Witness ==
  /\ TickDone
  /\ calls # <<>>
  /\ snapshot # <<>>
  /\ \E i \in DOMAIN before : ~InSnapshot(i)

\* C2: a process() whose snapshot holds exactly the facts cached by the
\* previous step invokes no callback and leaves the cache as it was.
C2_Idempotent ==
  (TickDone /\ DOMAIN before = Ids(snapshot)
            /\ \A k \in DOMAIN snapshot : before[snapshot[k].id] = snapshot[k])
    => calls = <<>> /\ cache = before

\* A completed tick over an unchanged snapshot of two facts, one of them
\* ended, with two listeners registered.
C2_Witness ==
  /\ TickDone
  /\ Len(listeners) = 2
  /\ Len(snapshot) = 2
  /\ \E k \in DOMAIN snapshot : Truthy(snapshot[k].end_time)
  /\ DOMAIN before = Ids(snapshot)
  /\ \A k \in DOMAIN snapshot : before[snapshot[k].id] = snapshot[k]

\* C3: a cached running fact that the snapshot shows ended gets
\* on_fact_stopped exactly once on every listener and on_fact_started on
\* none; a cached fact the snapshot shows unchanged gets no callback.
C3_StoppedOnce ==
  TickDone =>
    \A k \in DOMAIN snapshot :
      LET f == snapshot[k] IN
      f.id \in DOMAIN before =>
        /\ (before[f.id].end_time = NoEnd /\ f.end_time # NoEnd) =>
             \A l \in Range(listeners) :
               /\ Invocations("on_fact_stopped", l, f.id) = 1
               /\ Invocations("on_fact_started", l, f.id) = 0
        /\ before[f.id] = f => Silent(f.id)

\* A completed tick in which a cached running fact ended, two listeners.
C3_Witness ==
  /\ TickDone
  /\ Len(listeners) = 2
  /\ \E k \in DOMAIN snapshot :
       /\ snapshot[k].id \in DOMAIN before
       /\ before[snapshot[k].id].end_time = NoEnd
       /\ snapshot[k].end_time # NoEnd

\* The callbacks process() owes a fact that is new and already ended were
\* all invoked: each listener got on_fact_started and on_fact_stopped once,
\* with this fact, and every on_fact_started came before every
\* on_fact_stopped.
StartedThenStopped(f) ==
  /\ \A l \in Range(listeners) :
       /\ Invocations("on_fact_started", l, f.id) = 1
       /\ Invocations("on_fact_stopped", l, f.id) = 1
  /\ \A k \in DOMAIN calls : calls[k].fact.id = f.id => calls[k].fact = f
  /\ \A j \in DOMAIN calls :
       (calls[j].fact.id = f.id /\ calls[j].op = "on_fact_started") =>
         \A k \in DOMAIN calls :
           (calls[k].fact.id = f.id /\ calls[k].op = "on_fact_stopped") => j < k

\* C4: a fact absent from the cache whose first snapshot has end_time set
\* gets on_fact_started and then on_fact_stopped in that process() call, and
\* is stored afterwards: a tick that returns has done both, and whenever the
\* fact is in the cache (also in a tick cut short) the callbacks were made.
C4_NewAndEnded ==
  (pc = "sleep" \/ excAt = "process") =>
    \A k \in DOMAIN snapshot :
      LET f == snapshot[k] IN
      (f.id \notin DOMAIN before /\ f.end_time # NoEnd) =>
        /\ TickDone => (f.id \in DOMAIN cache /\ cache[f.id] = f)
        /\ f.id \in DOMAIN cache => StartedThenStopped(f)

\* A completed tick that met a new, already ended fact, two listeners.
C4_Witness ==
  /\ TickDone
  /\ Len(listeners) = 2
  /\ \E k \in DOMAIN snapshot :
       /\ snapshot[k].id \notin DOMAIN before
       /\ snapshot[k].end_time # NoEnd

\* C5: a cached fact with no end_time that the snapshot no longer shows is
\* removed from the cache and no callback is invoked for it.
C5_VanishedIsSilent ==
  TickDone =>
    \A i \in DOMAIN before :
      (before[i].end_time = NoEnd /\ ~InSnapshot(i)) =>
        i \notin DOMAIN cache /\ Silent(i)

\* A completed tick in which a running fact vanished while another fact was
\* reported to a listener.
C5_Witness ==
  /\ TickDone
  /\ calls # <<>>
  /\ \E i \in DOMAIN before : before[i].end_time = NoEnd /\ ~InSnapshot(i)

\* C6: a cached fact that the snapshot shows with the same times and
\* another activity gets no callback, and the cache takes the new value.
C6_LabelEditIsSilent ==
  TickDone =>
    \A k \in DOMAIN snapshot :
      LET f == snapshot[k] IN
      (/\ f.id \in DOMAIN before
       /\ before[f.id].end_time = f.end_time
       /\ before[f.id].activity # f.activity) =>
        Silent(f.id) /\ cache[f.id] = f

\* A completed tick in which an ended fact changed its activity only.
C6_Witness ==
  /\ TickDone
  /\ listeners # <<>>
  /\ \E k \in DOMAIN snapshot :
       /\ snapshot[k].id \in DOMAIN before
       /\ snapshot[k].end_time # NoEnd
       /\ before[snapshot[k].id].end_time = snapshot[k].end_time
       /\ before[snapshot[k].id].activity # snapshot[k].activity

\* The position of the first add_listener call that named l.
FirstAdded(l) ==
  CHOOSE i \in DOMAIN addCalls :
    addCalls[i] = l /\ \A j \in DOMAIN addCalls : addCalls[j] = l => i <= j

\* C7: whatever the add_listener calls, a listener is in the registry at
\* most once, the registry holds the listeners named so far in the order of
\* their first registration, and a completed tick delivers each of its
\* events to every registered listener exactly once.
C7_AddListenerIdempotent ==
  /\ NoDup(listeners)
  /\ pc = "init" =>
       /\ Range(listeners) = Range(addCalls)
       /\ \A i, j \in DOMAIN listeners :
            i < j => FirstAdded(listeners[i]) < FirstAdded(listeners[j])
  /\ TickDone =>
       \A k \in DOMAIN calls :
         /\ calls[k].listener \in Range(listeners)
         /\ \A l \in Range(listeners) :
              Invocations(calls[k].op, l, calls[k].fact.id) = 1

\* Two listeners registered, the first of them registered again afterwards.
C7_Witness ==
  /\ pc = "init"
  /\ Len(listeners) = 2
  /\ Len(addCalls) = 3
  /\ addCalls[3] = listeners[1]

\* The seeding invokes no callback and puts every fact of its snapshot into
\* the cache.
SeedIsSilent ==
  pc = "seed" =>
    /\ calls' = <<>>
    /\ pc' = "process" =>
         /\ DOMAIN cache' = Ids(snapshot')
         /\ \A k \in DOMAIN snapshot' : cache'[snapshot'[k].id] = snapshot'[k]

\* C8: the facts of the snapshot run() starts with are cached without a
\* callback, and a cached fact gets no callback in a tick whose snapshot
\* shows it unchanged, also when its end_time is present.
C8_InitialFactsSilent ==
  /\ [][SeedIsSilent]_vars
  /\ [](TickDone =>
          \A k \in DOMAIN snapshot :
            (/\ snapshot[k].id \in DOMAIN before
             /\ before[snapshot[k].id] = snapshot[k]) => Silent(snapshot[k].id))

\* A completed tick that found a cached, ended fact unchanged while it
\* reported another fact.
C8_Witness ==
  /\ TickDone
  /\ calls # <<>>
  /\ \E k \in DOMAIN snapshot :
       /\ snapshot[k].end_time # NoEnd
       /\ snapshot[k].id \in DOMAIN before
       /\ before[snapshot[k].id] = snapshot[k]

\* C9 as claimed: process() is entered from the sleep only.
C9_SleepBeforeProcess == [][pc' = "process" => pc = "sleep"]_vars

\* C9, amended: the loop processes first and sleeps afterwards.  process()
\* is entered from the seeding or from the sleep, the seeding goes on to
\* process() unless it raises, and the sleep is entered from process() only.
C9_ProcessThenSleep ==
  [][/\ pc' = "process" => pc \in {"seed", "sleep"}
     /\ (pc = "seed" /\ excAt' = "none") => pc' = "process"
     /\ pc' = "sleep" => pc = "process"
     /\ (pc = "sleep" /\ excAt' = "none") => pc' = "process"]_vars

\* The loop is asleep after a process() call that reported events.
C9_Witness == pc = "sleep" /\ excAt = "none" /\ calls # <<>>

\* C10 as claimed: an interrupt raised anywhere in run() makes run() return:
\* run() is never left with one.
C10_InterruptNeverPropagates == exc \notin Interrupts

\* C10, amended: an interrupt raised in process() or in the sleep makes
\* run() return normally; one raised in a listener's prepare() or in the
\* seeding leaves run() as an exception.
C10_InterruptInLoopReturns ==
  /\ exc \in Interrupts => excAt \in {"prepare", "seed"} /\ pc = "raised"
  /\ pc = "returned" => exc = "none" /\ excAt \in {"process", "sleep"}
  /\ (excAt \in {"process", "sleep"} /\ exc = "none") => pc = "returned"

\* run() returned because an interrupt was raised in process() after a
\* callback had been invoked.
C10_Witness ==
  /\ pc = "returned"
  /\ exc = "none"
  /\ excAt = "process"
  /\ calls # <<>>

\* The place of listener l in the registry, and of fact id in the snapshot.
ListenerPos(l) == CHOOSE j \in DOMAIN listeners : listeners[j] = l
SnapshotPos(id) == CHOOSE k \in DOMAIN snapshot : snapshot[k].id = id

\* Every registered listener was invoked once for each event in calls.
AllDelivered(id) ==
  \A op \in {"on_fact_started", "on_fact_stopped"} :
    (\E k \in DOMAIN calls : calls[k].op = op /\ calls[k].fact.id = id) =>
      \A l \in Range(listeners) : Invocations(op, l, id) = 1

\* C11 as claimed: when an interrupt has ended run(), every event that was
\* delivered was delivered to every listener and the fact it is about is
\* in the cache.
C11_NoHalfTick ==
  pc = "returned" =>
    \A k \in DOMAIN calls :
      /\ AllDelivered(calls[k].fact.id)
      /\ Get(cache, calls[k].fact.id) = calls[k].fact

\* C11, amended: an interrupt in the sleep finds the last tick complete; an
\* interrupt in process() cuts the tick where it arrives.  What was
\* delivered went to the listeners in registration order, so an event may
\* have reached the first listeners only; at most one fact has callbacks
\* without its snapshot in the cache; and a fact that was written to the
\* cache had all its callbacks delivered before.
C11_InterruptCutsTick ==
  pc = "returned" =>
    /\ excAt = "sleep" =>
         /\ calls = <<>>
         /\ DOMAIN cache = Ids(snapshot)
         /\ \A k \in DOMAIN snapshot : cache[snapshot[k].id] = snapshot[k]
    /\ excAt = "process" =>
         /\ \A k \in DOMAIN calls :
              ListenerPos(calls[k].listener) > 1 =>
                /\ k > 1
                /\ calls[k - 1] =
                     [calls[k] EXCEPT
                        !.listener = listeners[ListenerPos(calls[k].listener) - 1]]
         /\ \A i \in DOMAIN cache :
              Get(before, i) # cache[i] =>
                /\ AllDelivered(i)
                /\ i \notin DOMAIN before =>
                     \A l \in Range(listeners) : Invocations("on_fact_started", l, i) = 1
         /\ Cardinality({i \in FactIds :
                           \E k \in DOMAIN calls :
                             calls[k].fact.id = i /\ Get(cache, i) # calls[k].fact}) <= 1

\* An interrupt ended run() when the first of two listeners had been told
\* of an event and the second had not.
C11_Witness ==
  /\ pc = "returned"
  /\ excAt = "process"
  /\ Len(listeners) = 2
  /\ \E k \in DOMAIN calls :
       /\ Invocations(calls[k].op, listeners[1], calls[k].fact.id) = 1
       /\ Invocations(calls[k].op, listeners[2], calls[k].fact.id) = 0

\* C12: when a callback raises an Exception in process(), run() ends with
\* that exception and nothing more happens: the callback that raised is the
\* last one invoked, so the listeners registered after it did not get the
\* event, no on_fact_stopped followed a raising on_fact_started, the fact
\* was not written to the cache, the facts after it in the snapshot got no
\* callback and no cache write, and no further step is taken.
C12_RaisingListenerEndsRun ==
  /\ []((exc = "Exception" /\ excAt = "process") =>
          /\ pc = "raised"
          /\ calls # <<>> =>
               LET last == calls[Len(calls)] IN
               /\ \A j \in (ListenerPos(last.listener) + 1)..Len(listeners) :
                    Invocations(last.op, listeners[j], last.fact.id) = 0
               /\ last.op = "on_fact_started" =>
                    \A l \in Range(listeners) :
                      Invocations("on_fact_stopped", l, last.fact.id) = 0
               /\ Get(cache, last.fact.id) = Get(before, last.fact.id)
               /\ \A k \in (SnapshotPos(last.fact.id) + 1)..Len(snapshot) :
                    /\ Silent(snapshot[k].id)
                    /\ Get(cache, snapshot[k].id) = Get(before, snapshot[k].id))
  /\ [][pc \notin {"raised", "returned"}]_vars

\* The first of two listeners raised in on_fact_started for the first of
\* two new facts, the second of them already ended.
C12_Witness ==
  /\ pc = "raised"
  /\ exc = "Exception"
  /\ excAt = "process"
  /\ Len(listeners) = 2
  /\ Len(calls) = 1
  /\ Len(snapshot) = 2
  /\ before = EmptyCache
  /\ snapshot[1].end_time # NoEnd

\* The rank of a callback in the order process() makes them: by the fact's
\* place in the snapshot, on_fact_started before on_fact_stopped, by the
\* listener's place in the registry.
CallRank(c) ==
  <<SnapshotPos(c.fact.id), IF c.op = "on_fact_started" THEN 1 ELSE 2, ListenerPos(c.listener)>>

RankLess(a, b) ==
  \/ a[1] < b[1]
  \/ a[1] = b[1] /\ a[2] < b[2]
  \/ a[1] = b[1] /\ a[2] = b[2] /\ a[3] < b[3]

\* The events listener l received, in order.
EventsOf(l) ==
  LET Ev(k) == <<calls[k].op, calls[k].fact>>
      F[n \in 0..Len(calls)] ==
        IF n = 0 THEN <<>>
        ELSE IF calls[n].listener = l THEN Append(F[n - 1], Ev(n)) ELSE F[n - 1]
  IN F[Len(calls)]

\* C15: the callbacks of a process() call, also of one cut short, are made
\* in one order: facts as the snapshot lists them, for a fact
\* on_fact_started on every listener in registration order and then
\* on_fact_stopped on every listener in registration order, each with the
\* snapshot's fact; after a completed tick all listeners have received the
\* same sequence of events.
C15_DispatchOrder ==
  (pc = "sleep" \/ excAt = "process") =>
    /\ \A k \in DOMAIN calls :
         /\ calls[k].listener \in Range(listeners)
         /\ InSnapshot(calls[k].fact.id)
         /\ calls[k].fact = snapshot[SnapshotPos(calls[k].fact.id)]
    /\ \A k \in 2..Len(calls) :
         RankLess(CallRank(calls[k - 1]), CallRank(calls[k]))
    /\ TickDone =>
         \A l1, l2 \in Range(listeners) : EventsOf(l1) = EventsOf(l2)

\* A completed tick with two listeners and two facts, the first of them new
\* and ended, the second reported too.
C15_Witness ==
  /\ TickDone
  /\ Len(listeners) = 2
  /\ Len(snapshot) = 2
  /\ snapshot[1].id \notin DOMAIN before
  /\ snapshot[1].end_time # NoEnd
  /\ ~Silent(snapshot[2].id)

\* C16: an id that is in the cache when process() starts and in the
\* snapshot it fetches keeps its cache entry, and on_fact_started is
\* invoked only for a fact whose id was not in the cache when process()
\* started, also in a tick that is cut short.
C16_EvictionSparesSnapshot ==
  (pc = "sleep" \/ excAt = "process") =>
    /\ \A i \in DOMAIN before : InSnapshot(i) => i \in DOMAIN cache
    /\ \A k \in DOMAIN calls :
         calls[k].op = "on_fact_started" => calls[k].fact.id \notin DOMAIN before

\* A completed tick that evicted a fact, kept a changed one silently and
\* so had nothing to start.
C16_Witness ==
  /\ TickDone
  /\ listeners # <<>>
  /\ \E i \in DOMAIN before : ~InSnapshot(i)
  /\ \E i \in DOMAIN before : InSnapshot(i) /\ cache[i] # before[i]

\* run() has been called.
RunCalled == pc \notin {"init", "configured"}

\* run() is at or past line 103, the first fetch of the facts.
FetchReached ==
  \/ pc \in {"process", "sleep", "returned"}
  \/ pc = "raised" /\ excAt \in {"seed", "process"}

\* A prepare() call is made in this step.
PrepareStep == prepared' # prepared

\* C13: run() calls prepare() once on every registered listener, in
\* registration order, after configure() has called that listener's
\* configure() and before the first fetch and the first callback.
C13_PrepareOnceInOrder ==
  /\ [][PrepareStep => /\ prepared = <<>>
                        /\ configured = listeners
                        /\ snapshot = <<>> /\ calls = <<>> /\ cache = EmptyCache
                        /\ ~FetchReached]_vars
  /\ [](/\ ~RunCalled => prepared = <<>> /\ snapshot = <<>> /\ calls = <<>>
        /\ RunCalled =>
             /\ \E n \in 0..Len(listeners) : prepared = SubSeq(listeners, 1, n)
             /\ \A k \in DOMAIN prepared :
                  \E j \in DOMAIN configured : configured[j] = prepared[k]
        /\ (FetchReached \/ snapshot # <<>> \/ calls # <<>>) =>
             prepared = listeners /\ NoDup(prepared))

\* Two listeners, both configured and prepared, have received callbacks.
C13_Witness ==
  /\ TickDone
  /\ Len(listeners) = 2
  /\ prepared = listeners
  /\ configured = listeners
  /\ \A l \in Range(listeners) : \E k \in DOMAIN calls : calls[k].listener = l

\* The written file offers this option in this section.
Written(sec, o) == has_option(configfile, sec, o)

\* C14: with save_passwords false configure() writes the non-sensitive
\* config and nothing of sensitive_config; with save_passwords true it
\* writes the sections and options of both, the value of sensitive_config
\* where both have the option.
C14_SensitiveOnlyIfSaved ==
  pc = "configured" =>
    /\ ~save_passwords => configfile = config
    /\ save_passwords =>
         /\ sections(configfile) = sections(config) \cup sections(sensitive_config)
         /\ \A sec \in ConfigSections, o \in Options :
              /\ Written(sec, o) <=> \/ has_option(config, sec, o)
                                     \/ has_option(sensitive_config, sec, o)
              /\ Written(sec, o) =>
                   get(configfile, sec, o) =
                     IF has_option(sensitive_config, sec, o)
                     THEN get(sensitive_config, sec, o)
                     ELSE get(config, sec, o)

\* save_passwords is false and a listener put into sensitive_config an
\* option that config has with another value.
C14_Witness ==
  /\ pc = "configured"
  /\ ~save_passwords
  /\ \E sec \in ConfigSections, o \in Options :
       /\ has_option(config, sec, o)
       /\ has_option(sensitive_config, sec, o)
       /\ get(config, sec, o) # get(sensitive_config, sec, o)
       /\ get(configfile, sec, o) = get(config, sec, o)

\* The k-th prepare() call of run() was the Redmine listener's and a step
\* of it failed.
RedmineFailed(k) ==
  /\ short_name(prepared[k]) = "redmine"
  /\ prepFail[k].type \in RedmineCaught \cup {"Exception"}

\* The k-th prepare() call raised out of run().
Fatal(k) ==
  pc = "raised" /\ excAt = "prepare" /\ k = Len(prepFail) /\ exc = prepFail[k].type

\* C17 as stated: whatever step of the Redmine listener's prepare() fails,
\* prepare() returns and run() goes on.
C17_PrepareNeverFatal ==
  \A k \in DOMAIN prepFail : RedmineFailed(k) => ~Fatal(k)

\* C17: a failure of the Redmine listener's prepare() is caught when the
\* iteration over the time entry activities raises BaseRedmineError,
\* IOError or ConnectionError: run() goes on with the next listener and,
\* none raising, to the seeding.  Any other failure leaves prepare() and
\* run().
C17_OnlyIterationCaught ==
  /\ \A k \in DOMAIN prepFail :
       RedmineFailed(k) =>
         IF prepFail[k].step = "iterate" /\ prepFail[k].type \in RedmineCaught
         THEN ~Fatal(k) /\ (k < Len(prepFail) \/ Len(prepFail) = Len(listeners))
         ELSE Fatal(k)
  /\ (pc = "seed" /\ exc = "none") => prepared = listeners

\* The connectivity check of the Redmine listener failed and run() is
\* about to seed the cache.
C17_Witness ==
  /\ pc = "seed"
  /\ \E k \in DOMAIN prepFail :
       /\ RedmineFailed(k)
       /\ prepFail[k] = [step |-> "iterate", type |-> "ConnectionError"]

\* The last on_fact_started call was for a fact naming an issue that the
\* server had in the default status, with auto_start 'y'.
StartsIssue ==
  /\ redmine.auto_start = "y"
  /\ redmine.last.issue # NoIssue
  /\ redmine.last.remote[redmine.last.issue] = "New"

\* C18 as stated: on_fact_started sets the named issue to 'In Work' when
\* auto_start is 'y' and the issue exists in the default status, changes
\* nothing otherwise, and never raises.
C18_StartedSetsInWork ==
  redmine.last.outcome # "none" =>
    /\ redmine.last.outcome = "returned"
    /\ IF StartsIssue
       THEN redmine.remote =
              [redmine.last.remote EXCEPT ![redmine.last.issue] = "In Work"]
       ELSE redmine.remote = redmine.last.remote

\* The call that C18 says sets the issue to 'In Work' raised TypeError.
C18_Witness == StartsIssue /\ redmine.last.outcome = "TypeError"

\* The facts of this id were left out of the previous snapshot.
Reappears(id) == id \in session.omitted /\ InSnapshot(id)

\* C19: a fact whose id the previous snapshot did not show is new to
\* process(), whatever was delivered for that id before: on_fact_started is
\* invoked for it on every listener and, if it has an end time,
\* on_fact_stopped after it.
C19_ReappearingIsNew ==
  TickDone =>
    \A k \in DOMAIN snapshot :
      Reappears(snapshot[k].id) =>
        \A l \in Range(listeners) :
          /\ Invocations("on_fact_started", l, snapshot[k].id) = 1
          /\ Invocations("on_fact_stopped", l, snapshot[k].id) =
               (IF Truthy(snapshot[k].end_time) THEN 1 ELSE 0)
          /\ \A i, j \in DOMAIN calls :
               (/\ calls[i].listener = l /\ calls[j].listener = l
                /\ calls[i].fact.id = snapshot[k].id /\ calls[j].fact.id = snapshot[k].id
                /\ calls[i].op = "on_fact_started" /\ calls[j].op = "on_fact_stopped")
                 => i < j

\* Both events had been delivered for an id, a snapshot left it out, and
\* now it is back with an end time: on_fact_stopped was invoked for it a
\* second time.
C19_Witness ==
  /\ TickDone
  /\ \E k \in DOMAIN snapshot :
       /\ Reappears(snapshot[k].id)
       /\ snapshot[k].id \in session.started \cap session.stopped
       /\ Truthy(snapshot[k].end_time)
       /\ \A l \in Range(listeners) :
            Invocations("on_fact_stopped", l, snapshot[k].id) = 1

\* The fact of snapshot position k was in the cache when the iteration
\* began: the previous snapshot showed its id.
Stays(k) == snapshot[k].id \in DOMAIN before

\* C20: for a fact that stays in the snapshots on_fact_stopped is invoked,
\* once on every listener, exactly when the new snapshot has an end time
\* and the cached one had none; on_fact_started is not invoked; and every
\* on_fact_stopped call passes a fact with an end time.
C20_StoppedIffNewlyEnded ==
  /\ \A i \in DOMAIN calls :
       calls[i].op = "on_fact_stopped" => Truthy(calls[i].fact.end_time)
  /\ TickDone =>
       \A k \in DOMAIN snapshot :
         Stays(k) =>
           \A l \in Range(listeners) :
             /\ Invocations("on_fact_started", l, snapshot[k].id) = 0
             /\ Invocations("on_fact_stopped", l, snapshot[k].id) =
                  (IF /\ Truthy(snapshot[k].end_time)
                      /\ ~Truthy(before[snapshot[k].id].end_time)
                   THEN 1 ELSE 0)

\* A fact that had been stopped and reopened is closed again, and
\* on_fact_stopped is invoked again; next to it another fact went from one
\* end time to another in silence.
C20_Witness ==
  /\ TickDone
  /\ \E k \in DOMAIN snapshot :
       /\ Stays(k)
       /\ snapshot[k].id \in session.stopped
       /\ ~Truthy(before[snapshot[k].id].end_time)
       /\ \A l \in Range(listeners) :
            Invocations("on_fact_stopped", l, snapshot[k].id) = 1
  /\ \E k \in DOMAIN snapshot :
       /\ Stays(k)
       /\ Truthy(before[snapshot[k].id].end_time)
       /\ Truthy(snapshot[k].end_time)
       /\ before[snapshot[k].id].end_time # snapshot[k].end_time
       /\ Silent(snapshot[k].id)
====
